---- MODULE Spec2Model ----
(***************************************************************************)
(* Model of the chunked falling-sand simulation of granular-core           *)
(* (simulation/mod.rs, chunk.rs, grid.rs, cell.rs, material.rs), of its    *)
(* InputSystem (input_system.rs) and of its AssetSystem (assets/mod.rs).   *)
(*                                                                         *)
(* The world is scaled down: the source's 8 x 8 chunks of 32 x 32 cells    *)
(* become NUM_CHUNKS_X x NUM_CHUNKS_Y chunks of CHUNK_SIZE x CHUNK_SIZE    *)
(* cells.  The scaled world keeps what the properties depend on: an even   *)
(* number of chunks per axis centred on the origin, two chunks of the same *)
(* phase in one column, world edges on all sides and chunks of more than   *)
(* one row.  The properties C1 to C10 were also checked with 4 x 4 and     *)
(* with 2 x 6 chunks.                                                      *)
(*                                                                         *)
(* One Simulation::update call is split into steps so that the chunk       *)
(* updates rayon runs in parallel inside a phase interleave cell visit by  *)
(* cell visit.  Variables marked "history" record what has happened and    *)
(* never influence the program state.                                      *)
(*                                                                         *)
(* Six specifications: Spec (setup, then updates and readers),             *)
(* SpecNoSetup (updates although setup never ran), SpecRun (the source's   *)
(* layout followed until it has settled, with fairness), GridSpec (one     *)
(* CellGrid, its constructors and setters), InputSpec (the InputSystem)    *)
(* and AssetSpec (the AssetSystem).                                        *)
(***************************************************************************)
EXTENDS Integers, Sequences, FiniteSets, TLC

\* ---------------------------------------------------------------- bounds
\* Side length of a chunk (32 in the source).
CHUNK_SIZE == 2
\* Simulation::update is not called again once tick has reached MaxTick.
MaxTick == 62
\* Number of CellGrid calls made on the grid of the grid specification.
MaxOps == 2
\* Simulation::update is not called again once tick has reached MaxRunTick
\* in the specification that follows the source's layout until it has settled.
MaxRunTick == 66
\* Number of AssetSystem::load calls made in the asset specification.
MaxLoads == 4

\* ------------------------------------------------------------- constants
\* The tick up to which Simulation::update moves nothing.
WARMUP_TICKS == 60
\* Chunks per axis (8 and 8 in the source).
NUM_CHUNKS_X == 2
NUM_CHUNKS_Y == 4
NUM_CHUNKS_TOTAL == NUM_CHUNKS_X * NUM_CHUNKS_Y
NUM_CELLS_IN_CHUNK == CHUNK_SIZE * CHUNK_SIZE
NUM_PHASES == 4

HALO_DIRECTIONS ==
    << <<-1, -1>>, <<0, -1>>, <<1, -1>>, <<-1, 0>>,
       <<1, 0>>, <<-1, 1>>, <<0, 1>>, <<1, 1>> >>

\* Option::None of a halo link; chunk indices are the Some values.
None == -1
\* get_grid_from_dir reached unimplemented!()
Unimplemented == -2
\* No swap takes place.
NoTarget == << >>
ChunkIdx == 0 .. NUM_CHUNKS_TOTAL - 1
CellIdx == 0 .. NUM_CELLS_IN_CHUNK - 1
Local == 0 .. CHUNK_SIZE - 1
HaloIdx == 1 .. 8
Phases == 0 .. NUM_PHASES - 1

\* ------------------------------------------------------ integer helpers
\* i32::abs
Abs(n) == IF n < 0 THEN -n ELSE n

\* Rust `/` on i32 truncates toward zero
DivTrunc(a, b) == IF a >= 0 THEN a \div b ELSE -((-a) \div b)

\* i32::rem_euclid / I16Vec2::rem_euclid for a positive divisor
rem_euclid(a, b) == ((a % b) + b) % b

\* `(cond) as i32`
AsInt(b) == IF b THEN 1 ELSE 0

\* n & 1 on a non-negative integer
LowBit(n) == n % 2

\* ------------------------------------------------------------ material.rs
Material == {"Empty", "Sand", "Red", "Green", "Blue"}

color(material) ==
    CASE material = "Empty" -> <<10, 10, 10, 255>>
      [] material = "Sand"  -> <<221, 193, 48, 255>>
      [] material = "Red"   -> <<255, 0, 0, 255>>
      [] material = "Green" -> <<0, 255, 0, 255>>
      [] material = "Blue"  -> <<0, 0, 255, 255>>

\* ---------------------------------------------------------------- cell.rs
Cell_new(material) ==
    [color |-> color(material),
     material |-> material,
     last_processed_in_tick |-> 0]

\* ---------------------------------------------------------------- grid.rs
\* A GridPos is <<x, y>>.
grid_idx(pos) == pos[1] + pos[2] * CHUNK_SIZE

CellGrid_empty ==
    [cells |-> [i \in CellIdx |-> Cell_new("Empty")],
     texture_data |-> [b \in 0 .. 4 * NUM_CELLS_IN_CHUNK - 1 |-> 0]]

new_material(material) ==
    [cells |-> [i \in CellIdx |-> Cell_new(material)],
     texture_data |-> [b \in 0 .. 4 * NUM_CELLS_IN_CHUNK - 1 |->
                          color(material)[(b % 4) + 1]]]

set_color_at_grididx(g, idx, col) ==
    [g EXCEPT !.texture_data =
        [b \in DOMAIN g.texture_data |->
            IF b \div 4 = idx THEN col[(b % 4) + 1] ELSE g.texture_data[b]]]

set_color(g, pos, col) == set_color_at_grididx(g, grid_idx(pos), col)

set_cell(g, pos, cell) ==
    set_color_at_grididx([g EXCEPT !.cells[grid_idx(pos)] = cell],
                         grid_idx(pos), cell.color)

\* replace_cell writes the texture bytes and then hands `cell` to
\* std::mem::replace together with `&mut self.get_cell_at_mut(grididx)`, a
\* temporary that holds the reference to the stored cell: the temporary is
\* overwritten, the stored cell is not, and the reference to the stored cell
\* is returned.
replace_cell(g, pos, cell) == set_color_at_grididx(g, grid_idx(pos), cell.color)

get_color(g, pos) ==
    << g.texture_data[grid_idx(pos) * 4 + 0], g.texture_data[grid_idx(pos) * 4 + 1],
       g.texture_data[grid_idx(pos) * 4 + 2], g.texture_data[grid_idx(pos) * 4 + 3] >>

\* No snapshot of a chunk update is held.
NoSnap == [taken |-> FALSE, own |-> CellGrid_empty, south |-> CellGrid_empty]

\* No reader holds the chunks.
NoObservation == [taken |-> FALSE, grids |-> << >>]

\* The state of the grid specification: the grid, the number of calls made
\* on it, and the last call (the constructor at first) with its arguments.
ApiState(g, n, op, pos, col) ==
    [grid |-> g, ops |-> n, last |-> [op |-> op, pos |-> pos, color |-> col]]

\* The grid of the grid specification is not in use.
ApiIdle == ApiState(CellGrid_empty, 0, "idle", <<0, 0>>, <<0, 0, 0, 0>>)

\* The InputSystem as InputSystem::new builds it: no action is registered
\* (an unregistered name has no entry in the HashMap), no modifier is held.
\* `down` is the set of keys and buttons that are physically held.
ActionNames == {"jump", "fire"}
NoAction == [registered |-> FALSE, triggers |-> << >>,
             pressed |-> FALSE, just_pressed |-> FALSE]
InputSystem_new ==
    [actions |-> [n \in ActionNames |-> NoAction],
     current_modifiers |-> {},
     down |-> {}]

\* The AssetSystem as AssetSystem::new builds it: both maps are empty.  The
\* maps are sets of pairs; `handles` counts per id the AssetHandles that live
\* outside the system (the strong count of the Arc is one more), `loads` the
\* calls of load, `last` is the last call with what it returned.
AssetIds == 0 .. MaxLoads
AssetSystem_new ==
    [assets |-> {}, path_to_id |-> {},
     handles |-> [i \in AssetIds |-> 0],
     loads |-> 0, panicked |-> FALSE,
     last |-> [op |-> "new", path |-> "", id |-> None]]

\* ------------------------------------------------------------------ state
VARIABLES
    chunks,       \* Simulation.chunks: index -> [position, grid, halo]
    tick,         \* Simulation.tick
    initialized,  \* the Initialized event has been handled (setup ran)
    updating,     \* a Simulation::update call is between its first and last step
    phase,        \* the `phase` loop variable of Simulation::update
    pc,           \* per chunk: "idle", "running" or "done" in the current call
    cursor,       \* per chunk: number of cells Chunk::update has visited
    touched,      \* history: grids the chunk's update of this phase has accessed
    snap,         \* history: own and south grid as they were when the update began
    origin,       \* history: global <<x, y>> at the start of the call of the cell now here
    swaps,        \* history: swaps in this call of the cell now here
    initCount,    \* history: number of cells per material after construction
    pre,          \* history: chunks as they were when the current or last update call began
    observed,     \* history: the grids a reader got from get_chunks since the last handler ran
    api,          \* a CellGrid of its own with the calls made on it (grid specification)
    order,        \* history: per chunk the local positions visited in this call, in order
    calls,        \* history: number of Simulation::update calls begun
    input,        \* the InputSystem (input specification)
    assetsys      \* the AssetSystem (asset specification)

vars == <<chunks, tick, initialized, updating, phase, pc, cursor,
          touched, snap, origin, swaps, initCount, pre, observed, api,
          order, calls, input, assetsys>>

ctl == <<updating, phase, pc, cursor>>
hist == <<touched, snap, origin, swaps>>
ext == <<api, input, assetsys>>
sim == <<chunks, tick, initialized, ctl, hist, initCount, pre, observed, order, calls>>

\* ------------------------------------------------------- Simulation::new
\* The x and y ranges of the two construction loops.
NewRangeX == DivTrunc(-NUM_CHUNKS_X, 2) .. DivTrunc(NUM_CHUNKS_X, 2) - 1
NewRangeY == DivTrunc(-NUM_CHUNKS_Y, 2) .. DivTrunc(NUM_CHUNKS_Y, 2) - 1
NewWidth == Cardinality(NewRangeX)

\* Mutant of NewPosition: the array is filled column by column.
NewPosition_colMajor(idx) ==
    IF idx < NewWidth * Cardinality(NewRangeY)
    THEN << DivTrunc(-NUM_CHUNKS_X, 2) + (idx \div Cardinality(NewRangeY)),
            DivTrunc(-NUM_CHUNKS_Y, 2) + (idx % Cardinality(NewRangeY)) >>
    ELSE <<0, 0>>

\* Position given to chunks[idx] by the loops; array slots the loops do not
\* reach keep IVec2::ZERO.
NewPosition(idx) ==
    IF idx < NewWidth * Cardinality(NewRangeY)
    THEN << DivTrunc(-NUM_CHUNKS_X, 2) + (idx % NewWidth),
            DivTrunc(-NUM_CHUNKS_Y, 2) + (idx \div NewWidth) >>
    ELSE <<0, 0>>

\* The layouts the model starts from.  sandY is the chunk row that is
\* filled with Sand (the source uses y == 0); ov is NoOverride or one cell
\* (local x == 0) of the westmost chunk column that is replaced through
\* set_cell.  The layouts are the source's layout, the source's layout with
\* one replaced cell, and the layout with the Sand row on the world floor,
\* as it is or with one replaced cell in that row.
NoOverride == [cy |-> 0, y |-> 0, material |-> "None"]
Overrides ==
    {NoOverride} \cup [cy : NewRangeY, y : Local, material : Material]
FloorRow == DivTrunc(NUM_CHUNKS_Y, 2) - 1
Layouts ==
    {<<0, ov>> : ov \in Overrides}
    \cup {<<FloorRow, ov>> : ov \in {o \in Overrides : o = NoOverride \/ o.cy = FloorRow}}

NewGrid(idx, sandY, ov) ==
    LET position == NewPosition(idx)
        mat == IF position[2] = sandY THEN "Sand" ELSE "Empty"
        base == IF idx < NewWidth * Cardinality(NewRangeY)
                THEN new_material(mat) ELSE CellGrid_empty
    IN  IF ov # NoOverride /\ position = <<DivTrunc(-NUM_CHUNKS_X, 2), ov.cy>>
        THEN set_cell(base, <<0, ov.y>>, Cell_new(ov.material))
        ELSE base

Simulation_new(sandY, ov) ==
    [idx \in ChunkIdx |->
        [position |-> NewPosition(idx),
         grid |-> NewGrid(idx, sandY, ov),
         halo |-> [d \in HaloIdx |-> None]]]

\* ------------------------------------------------------- global geometry
\* Global cell coordinates of local position pos of chunk c.
GlobalPos(c, pos) ==
    << chunks[c].position[1] * CHUNK_SIZE + pos[1],
       chunks[c].position[2] * CHUNK_SIZE + pos[2] >>

PosOfIdx(i) == << i % CHUNK_SIZE, i \div CHUNK_SIZE >>

CountOf(ch, material) ==
    Cardinality({ci \in ChunkIdx \X CellIdx :
                    ch[ci[1]].grid.cells[ci[2]].material = material})

Init ==
    /\ \E lay \in Layouts : chunks = Simulation_new(lay[1], lay[2])
    /\ tick = 0
    /\ initialized = FALSE
    /\ updating = FALSE
    /\ phase = 0
    /\ pc = [c \in ChunkIdx |-> "idle"]
    /\ cursor = [c \in ChunkIdx |-> 0]
    /\ touched = [c \in ChunkIdx |-> {}]
    /\ snap = [c \in ChunkIdx |-> NoSnap]
    /\ origin = [c \in ChunkIdx |-> [i \in CellIdx |-> GlobalPos(c, PosOfIdx(i))]]
    /\ swaps = [c \in ChunkIdx |-> [i \in CellIdx |-> 0]]
    /\ initCount = [m \in Material |-> CountOf(chunks, m)]
    /\ pre = chunks
    /\ observed = NoObservation
    /\ api = ApiIdle
    /\ order = [c \in ChunkIdx |-> << >>]
    /\ calls = 0
    /\ input = InputSystem_new
    /\ assetsys = AssetSystem_new

\* ------------------------------------------- Simulation::get_idx_in_chunks
get_idx_in_chunks(chunk_pos) ==
    LET arr_x == rem_euclid(chunk_pos[1] + DivTrunc(NUM_CHUNKS_X, 2), NUM_CHUNKS_X)
        arr_y == rem_euclid(chunk_pos[2] + DivTrunc(NUM_CHUNKS_Y, 2), NUM_CHUNKS_Y)
    IN  arr_y * NUM_CHUNKS_X + arr_x

\* ------------------------------------------------------ Simulation::setup
\* Mutant of SetupHalo: the position found at the index is not compared.
SetupHalo_nocheck(chunk_idx, d) ==
    get_idx_in_chunks(<< chunks[chunk_idx].position[1] + HALO_DIRECTIONS[d][1],
                         chunks[chunk_idx].position[2] + HALO_DIRECTIONS[d][2] >>)

\* The halo entry setup stores for direction index d of chunk chunk_idx:
\* the owner of the grid the raw pointer refers to, or None.
SetupHalo(chunk_idx, d) ==
    LET neigh_pos == << chunks[chunk_idx].position[1] + HALO_DIRECTIONS[d][1],
                        chunks[chunk_idx].position[2] + HALO_DIRECTIONS[d][2] >>
        neigh_idx_in_chunks == get_idx_in_chunks(neigh_pos)
    IN  IF chunks[neigh_idx_in_chunks].position = neigh_pos
        THEN neigh_idx_in_chunks
        ELSE chunks[chunk_idx].halo[d]

Setup ==
    /\ ~initialized
    /\ ~updating
    /\ initialized' = TRUE
    /\ chunks' = [c \in ChunkIdx |->
                    [chunks[c] EXCEPT !.halo = [d \in HaloIdx |-> SetupHalo(c, d)]]]
    /\ pre' = chunks'
    /\ observed' = NoObservation
    /\ UNCHANGED <<tick, ctl, hist, initCount, order, calls, ext>>

\* Mutant of should_update: the parities are taken with the remainder `% 2`
\* of the signed coordinates instead of `abs() & 1`.
should_update_rem(c, p) ==
    ( (chunks[c].position[1] - 2 * DivTrunc(chunks[c].position[1], 2))
      + 2 * (chunks[c].position[2] - 2 * DivTrunc(chunks[c].position[2], 2)) ) = p

\* Mutant of should_update: the y bit is not shifted, `(x & 1) | (y & 1)`.
should_update_noshift(c, p) ==
    (IF LowBit(Abs(chunks[c].position[1])) = 1 \/ LowBit(Abs(chunks[c].position[2])) = 1
     THEN 1 ELSE 0) = p

\* Mutant of should_update: the y coordinate is ignored, `x & 1`.
should_update_xonly(c, p) ==
    LowBit(Abs(chunks[c].position[1])) = p

\* Chunk::should_update
should_update(c, p) ==
    (LowBit(Abs(chunks[c].position[1])) + 2 * LowBit(Abs(chunks[c].position[2]))) = p

\* ---------------------------------------------------- Chunk::update_range
\* The n-th value (n from 0) produced by update_range(0..CHUNK_SIZE, reverse).
update_range(n, reverse) == IF reverse THEN CHUNK_SIZE - 1 - n ELSE n

\* Mutant of SweepPos: the columns are reversed on even ticks, like the rows.
SweepPos_xEven(k, t) ==
    << update_range(k % CHUNK_SIZE, t % 2 = 0),
       update_range(k \div CHUNK_SIZE, t % 2 = 0) >>

\* Mutant of SweepPos: the rows are reversed on odd ticks instead of even.
SweepPos_oddReverse(k, t) ==
    << update_range(k % CHUNK_SIZE, t % 4 = 0),
       update_range(k \div CHUNK_SIZE, t % 2 = 1) >>

\* The k-th position (k from 0) the two nested loops of Chunk::update visit.
SweepPos(k, t) ==
    << update_range(k % CHUNK_SIZE, t % 4 = 0),
       update_range(k \div CHUNK_SIZE, t % 2 = 0) >>

\* ------------------------------------------------ Chunk::get_grid_from_dir
DirIndex(hint) ==
    IF \E d \in HaloIdx : HALO_DIRECTIONS[d] = hint
    THEN CHOOSE d \in HaloIdx : HALO_DIRECTIONS[d] = hint
    ELSE 0

\* Mutant of get_grid_from_dir: a missing halo link falls back to the own grid.
get_grid_from_dir_ownOnNone(ch, c, dir_hint) ==
    IF dir_hint = <<0, 0>> THEN c
    ELSE IF DirIndex(dir_hint) = 0 THEN Unimplemented
    ELSE IF ch[c].halo[DirIndex(dir_hint)] = None THEN c
    ELSE ch[c].halo[DirIndex(dir_hint)]

\* The owner of the grid the call returns, None, or Unimplemented when
\* the function falls through to unimplemented!().
get_grid_from_dir(ch, c, dir_hint) ==
    IF dir_hint = <<0, 0>> THEN c
    ELSE IF DirIndex(dir_hint) = 0 THEN Unimplemented
    ELSE ch[c].halo[DirIndex(dir_hint)]

\* --------------------------------------------------------- Chunk::update
\* Mutant of DirHint: the hint is given in cells, not in chunks.
DirHint_inCells(below_pos) ==
    << CHUNK_SIZE * (AsInt(below_pos[1] >= CHUNK_SIZE) - AsInt(below_pos[1] < 0)),
       CHUNK_SIZE * (AsInt(below_pos[2] >= CHUNK_SIZE) - AsInt(below_pos[2] < 0)) >>

\* dir_hint of the loop body.
DirHint(below_pos) ==
    << AsInt(below_pos[1] >= CHUNK_SIZE) - AsInt(below_pos[1] < 0),
       AsInt(below_pos[2] >= CHUNK_SIZE) - AsInt(below_pos[2] < 0) >>

\* Mutant of BelowPos: the cell looked at is the one below and to the east.
BelowPos_diagonal(pos) == << pos[1] + 1, pos[2] + 1 >>

BelowPos(pos) == << pos[1] + 0, pos[2] + 1 >>

\* Mutant of WrapPos: the position below is used as it is, without rem_euclid.
WrapPos_id(pos) == pos

WrapPos(pos) == << rem_euclid(pos[1], CHUNK_SIZE), rem_euclid(pos[2], CHUNK_SIZE) >>

\* Mutant of Processed: the stamp test is inverted, a cell is looked at
\* further only when it already carries the stamp of the tick.
Processed_inverted(ch, c, pos, t) ==
    /\ ch[c].grid.cells[grid_idx(pos)].last_processed_in_tick = t
    /\ ch[c].grid.cells[grid_idx(pos)].material = "Sand"

\* Mutant of Processed: every material but Empty is treated as falling.
Processed_nonEmpty(ch, c, pos, t) ==
    /\ ch[c].grid.cells[grid_idx(pos)].last_processed_in_tick # t
    /\ ch[c].grid.cells[grid_idx(pos)].material # "Empty"

\* The cell is looked at further: its stamp differs from the tick and it is Sand.
Processed(ch, c, pos, t) ==
    /\ ch[c].grid.cells[grid_idx(pos)].last_processed_in_tick # t
    /\ ch[c].grid.cells[grid_idx(pos)].material = "Sand"

\* The grid resolved for the cell below pos.
BelowGrid(ch, c, pos) == get_grid_from_dir(ch, c, DirHint(BelowPos(pos)))

\* Mutant of Target: the cell moves whenever the cell below is not Sand.
Target_notSand(ch, c, pos, t) ==
    IF ~Processed(ch, c, pos, t) THEN NoTarget
    ELSE IF BelowGrid(ch, c, pos) \notin ChunkIdx THEN NoTarget
    ELSE IF ch[BelowGrid(ch, c, pos)].grid.cells[grid_idx(WrapPos(BelowPos(pos)))].material
              # "Sand"
         THEN << BelowGrid(ch, c, pos), WrapPos(BelowPos(pos)) >>
         ELSE NoTarget

\* <<g, below_pos>> when the visit of pos swaps the cell with the cell at
\* below_pos of the grid of chunk g, NoTarget when the visit changes nothing.
Target(ch, c, pos, t) ==
    IF ~Processed(ch, c, pos, t) THEN NoTarget
    ELSE IF BelowGrid(ch, c, pos) \notin ChunkIdx THEN NoTarget
    ELSE IF ch[BelowGrid(ch, c, pos)].grid.cells[grid_idx(WrapPos(BelowPos(pos)))].material
              = "Empty"
         THEN << BelowGrid(ch, c, pos), WrapPos(BelowPos(pos)) >>
         ELSE NoTarget

\* The grids one loop iteration reads or writes.
Accessed(ch, c, pos, t) ==
    {c} \cup (IF Processed(ch, c, pos, t) /\ BelowGrid(ch, c, pos) \in ChunkIdx
              THEN {BelowGrid(ch, c, pos)} ELSE {})

\* Mutant of MoveCell: the own cell is copied over the cell below instead of swapped.
MoveCell_copy(ch, c, pos, g, below_pos, t) ==
    LET i == grid_idx(pos)
        j == grid_idx(below_pos)
        own_material == ch[c].grid.cells[i].material
        below_mat == ch[g].grid.cells[j].material
        h1 == [ch EXCEPT ![c].grid.cells[i].last_processed_in_tick = t]
        h2 == [h1 EXCEPT ![g].grid.cells[j] = h1[c].grid.cells[i]]
        h3 == [h2 EXCEPT ![c].grid = set_color(h2[c].grid, pos, color(below_mat))]
    IN  [h3 EXCEPT ![g].grid = set_color(h3[g].grid, below_pos, color(own_material))]

\* Mutant of MoveCell: the grid below is not recoloured.
MoveCell_noHaloColor(ch, c, pos, g, below_pos, t) ==
    LET i == grid_idx(pos)
        j == grid_idx(below_pos)
        below_mat == ch[g].grid.cells[j].material
        h1 == [ch EXCEPT ![c].grid.cells[i].last_processed_in_tick = t]
        h2 == [h1 EXCEPT ![c].grid.cells[i] = h1[g].grid.cells[j],
                         ![g].grid.cells[j] = h1[c].grid.cells[i]]
    IN  [h2 EXCEPT ![c].grid = set_color(h2[c].grid, pos, color(below_mat))]

\* Mutant of MoveCell: the moved cell is not stamped with the tick.
MoveCell_noStamp(ch, c, pos, g, below_pos, t) ==
    LET i == grid_idx(pos)
        j == grid_idx(below_pos)
        own_material == ch[c].grid.cells[i].material
        below_mat == ch[g].grid.cells[j].material
        h2 == [ch EXCEPT ![c].grid.cells[i] = ch[g].grid.cells[j],
                         ![g].grid.cells[j] = ch[c].grid.cells[i]]
        h3 == [h2 EXCEPT ![c].grid = set_color(h2[c].grid, pos, color(below_mat))]
    IN  [h3 EXCEPT ![g].grid = set_color(h3[g].grid, below_pos, color(own_material))]

\* Mutant of MoveCell: the stamp is written through cell_mut after the swap,
\* so it lands on the cell that came up from below.
MoveCell_stampAfter(ch, c, pos, g, below_pos, t) ==
    LET i == grid_idx(pos)
        j == grid_idx(below_pos)
        own_material == ch[c].grid.cells[i].material
        below_mat == ch[g].grid.cells[j].material
        h1 == [ch EXCEPT ![c].grid.cells[i] = ch[g].grid.cells[j],
                         ![g].grid.cells[j] = ch[c].grid.cells[i]]
        h2 == [h1 EXCEPT ![c].grid.cells[i].last_processed_in_tick = t]
        h3 == [h2 EXCEPT ![c].grid = set_color(h2[c].grid, pos, color(below_mat))]
    IN  [h3 EXCEPT ![g].grid = set_color(h3[g].grid, below_pos, color(own_material))]

\* Lines 76-82: stamp the own cell, swap it with the cell below, recolour both.
MoveCell(ch, c, pos, g, below_pos, t) ==
    LET i == grid_idx(pos)
        j == grid_idx(below_pos)
        own_material == ch[c].grid.cells[i].material
        below_mat == ch[g].grid.cells[j].material
        h1 == [ch EXCEPT ![c].grid.cells[i].last_processed_in_tick = t]
        h2 == [h1 EXCEPT ![c].grid.cells[i] = h1[g].grid.cells[j],
                         ![g].grid.cells[j] = h1[c].grid.cells[i]]
        h3 == [h2 EXCEPT ![c].grid = set_color(h2[c].grid, pos, color(below_mat))]
    IN  [h3 EXCEPT ![g].grid = set_color(h3[g].grid, below_pos, color(own_material))]

\* One iteration of the loop body of Chunk::update.
VisitResult(ch, c, pos, t) ==
    IF Target(ch, c, pos, t) = NoTarget THEN ch
    ELSE MoveCell(ch, c, pos, Target(ch, c, pos, t)[1], Target(ch, c, pos, t)[2], t)

\* Chunk::update run from its k-th visit to its end without interruption.
\* (The test on `visited` makes TLC evaluate one visit before the next.)
RECURSIVE SweepFrom(_, _, _, _)
SweepFrom(ch, c, k, t) ==
    IF k >= NUM_CELLS_IN_CHUNK THEN ch
    ELSE LET visited == VisitResult(ch, c, SweepPos(k, t), t)
         IN  IF DOMAIN visited = ChunkIdx
             THEN SweepFrom(visited, c, k + 1, t)
             ELSE visited

\* One whole call of Chunk::update.
Chunk_update(ch, c, t) == SweepFrom(ch, c, 0, t)

\* History bookkeeping of a swap between (c, i) and (g, j).
SwapHist(f, c, i, g, j) ==
    [f EXCEPT ![c][i] = f[g][j], ![g][j] = f[c][i]]

South == DirIndex(<<0, 1>>)

\* ------------------------------------------------------ Simulation::update
\* Mutant of UpdateBegin: `self.tick += 1` stands inside the branch of the
\* warm-up test, so a call during warm-up leaves the tick as it is.
UpdateBegin_tickInBranch ==
    /\ ~updating
    /\ tick < MaxTick
    /\ updating' = (tick + 1 > WARMUP_TICKS)
    /\ tick' = IF updating' THEN tick + 1 ELSE tick
    /\ phase' = 0
    /\ pre' = chunks
    /\ observed' = NoObservation
    /\ calls' = calls + 1
    /\ UNCHANGED <<chunks, initialized, pc, cursor, hist, initCount, order, ext>>

\* Mutant of UpdateBegin: the warm-up test is `tick >= 60`.
UpdateBegin_offByOne ==
    /\ ~updating
    /\ tick < MaxTick
    /\ tick' = tick + 1
    /\ updating' = (tick' >= WARMUP_TICKS)
    /\ phase' = 0
    /\ pre' = chunks
    /\ observed' = NoObservation
    /\ calls' = calls + 1
    /\ UNCHANGED <<chunks, initialized, pc, cursor, hist, initCount, order, ext>>

\* `self.tick += 1` and the warm-up test.  DEBUG_UPDATE is the constant
\* false, so only the else branch of Simulation::update is modelled.
UpdateBeginUpTo(limit) ==
    /\ ~updating
    /\ tick < limit
    /\ tick' = tick + 1
    /\ updating' = (tick' > WARMUP_TICKS)
    /\ phase' = 0
    /\ pre' = chunks
    /\ observed' = NoObservation
    /\ calls' = calls + 1
    /\ UNCHANGED <<chunks, initialized, pc, cursor, hist, initCount, order, ext>>

UpdateBegin == UpdateBeginUpTo(MaxTick)

\* The snapshot taken when Chunk::update of chunk c begins.
TakeSnap(c) ==
    [taken |-> TRUE,
     own |-> chunks[c].grid,
     south |-> IF chunks[c].halo[South] = None THEN CellGrid_empty
               ELSE chunks[chunks[c].halo[South]].grid]

\* Chunk::update of chunk c visits its next cell.  The first visit is the
\* start of the call: a worker has picked chunk c of the current phase and
\* should_update returned true.  The last visit ends the call.
VisitCell(c) ==
    /\ updating
    /\ \/ pc[c] = "idle" /\ should_update(c, phase)
       \/ pc[c] = "running"
    /\ cursor[c] < NUM_CELLS_IN_CHUNK
    /\ LET pos == SweepPos(cursor[c], tick)
           tg == Target(chunks, c, pos, tick)
       IN  /\ chunks' = VisitResult(chunks, c, pos, tick)
           /\ touched' = [touched EXCEPT ![c] = @ \cup Accessed(chunks, c, pos, tick)]
           /\ IF tg = NoTarget
              THEN UNCHANGED <<origin, swaps>>
              ELSE /\ origin' = SwapHist(origin, c, grid_idx(pos), tg[1], grid_idx(tg[2]))
                   /\ swaps' = SwapHist([swaps EXCEPT ![c][grid_idx(pos)] = @ + 1,
                                                      ![tg[1]][grid_idx(tg[2])] = @ + 1],
                                        c, grid_idx(pos), tg[1], grid_idx(tg[2]))
    /\ snap' = IF pc[c] = "idle" THEN [snap EXCEPT ![c] = TakeSnap(c)] ELSE snap
    /\ cursor' = [cursor EXCEPT ![c] = @ + 1]
    /\ order' = [order EXCEPT ![c] = Append(@, SweepPos(cursor[c], tick))]
    /\ pc' = [pc EXCEPT ![c] = IF cursor[c] + 1 = NUM_CELLS_IN_CHUNK
                               THEN "done" ELSE "running"]
    /\ UNCHANGED <<tick, initialized, updating, phase, initCount, pre, observed, calls, ext>>

\* Mutant of PhaseComplete: the loop goes on as soon as one chunk has finished.
PhaseComplete_any == \E c \in ChunkIdx : should_update(c, phase) /\ pc[c] = "done"

\* for_each has returned for every chunk of the phase.
PhaseComplete == \A c \in ChunkIdx : should_update(c, phase) => pc[c] = "done"

\* The barrier between two phases: the next iteration of `for phase in 0..4`.
NextPhase ==
    /\ updating
    /\ PhaseComplete
    /\ phase < NUM_PHASES - 1
    /\ phase' = phase + 1
    /\ touched' = [c \in ChunkIdx |-> {}]
    /\ snap' = [c \in ChunkIdx |-> NoSnap]
    /\ UNCHANGED <<chunks, tick, initialized, updating, pc, cursor,
                   origin, swaps, initCount, pre, observed, order, calls, ext>>

\* Mutant of UpdateEnd: Simulation::update returns once the last phase has
\* been started, without waiting for its chunk updates.
UpdateEnd_early ==
    /\ updating
    /\ phase = NUM_PHASES - 1
    /\ updating' = FALSE
    /\ phase' = 0
    /\ pc' = [c \in ChunkIdx |-> "idle"]
    /\ cursor' = [c \in ChunkIdx |-> 0]
    /\ touched' = [c \in ChunkIdx |-> {}]
    /\ snap' = [c \in ChunkIdx |-> NoSnap]
    /\ origin' = [c \in ChunkIdx |-> [i \in CellIdx |-> GlobalPos(c, PosOfIdx(i))]]
    /\ swaps' = [c \in ChunkIdx |-> [i \in CellIdx |-> 0]]
    /\ order' = [c \in ChunkIdx |-> << >>]
    /\ UNCHANGED <<chunks, tick, initialized, initCount, pre, observed, calls, ext>>

\* The last phase is complete and Simulation::update returns.
UpdateEnd ==
    /\ updating
    /\ PhaseComplete
    /\ phase = NUM_PHASES - 1
    /\ updating' = FALSE
    /\ phase' = 0
    /\ pc' = [c \in ChunkIdx |-> "idle"]
    /\ cursor' = [c \in ChunkIdx |-> 0]
    /\ touched' = [c \in ChunkIdx |-> {}]
    /\ snap' = [c \in ChunkIdx |-> NoSnap]
    /\ origin' = [c \in ChunkIdx |-> [i \in CellIdx |-> GlobalPos(c, PosOfIdx(i))]]
    /\ swaps' = [c \in ChunkIdx |-> [i \in CellIdx |-> 0]]
    /\ order' = [c \in ChunkIdx |-> << >>]
    /\ UNCHANGED <<chunks, tick, initialized, initCount, pre, observed, calls, ext>>

\* ----------------------------------- Simulation::update on a single worker
\* One pass of `par_iter_mut().for_each` for phase p run by a single worker:
\* the chunks from array index c on, one whole Chunk::update after the other.
RECURSIVE ForEachFrom(_, _, _, _)
ForEachFrom(ch, c, p, t) ==
    IF c >= NUM_CHUNKS_TOTAL THEN ch
    ELSE ForEachFrom(IF should_update(c, p) THEN Chunk_update(ch, c, t) ELSE ch,
                     c + 1, p, t)

\* The phases from p up to and including last, one after the other.
RECURSIVE PhasesFrom(_, _, _, _)
PhasesFrom(ch, p, last, t) ==
    IF p > last THEN ch
    ELSE PhasesFrom(ForEachFrom(ch, 0, p, t), p + 1, last, t)

\* The chunks a call of Simulation::update that raised the tick to t leaves
\* behind when a single worker runs it on the chunks ch.
Simulation_update(ch, t) ==
    IF t > WARMUP_TICKS THEN PhasesFrom(ch, 0, NUM_PHASES - 1, t) ELSE ch

\* ------------------------------------------------- Simulation::get_chunks
\* A reader takes the chunks and reads their grids and texture bytes.
\* get_chunks borrows the Simulation shared and the handlers setup and update
\* borrow it exclusively, so a reader runs between two handler calls and
\* has let go of the chunks when the next handler runs.
GetChunks ==
    /\ ~updating
    /\ ~observed.taken
    /\ observed' = [taken |-> TRUE, grids |-> [c \in ChunkIdx |-> chunks[c].grid]]
    /\ UNCHANGED <<chunks, tick, initialized, ctl, hist, initCount, pre, order, calls, ext>>

\* -------------------------------------------------------- specification
\* The engine delivers Initialized (setup) before the first FixedTick.
Next ==
    \/ Setup
    \/ (initialized /\ UpdateBegin)
    \/ \E c \in ChunkIdx : VisitCell(c)
    \/ NextPhase
    \/ UpdateEnd
    \/ GetChunks

Spec == Init /\ [][Next]_vars

\* ------------------------------------- specification: setup never runs
\* Simulation::update is called although the Initialized event was never
\* handled.
NextNoSetup ==
    \/ UpdateBegin
    \/ \E c \in ChunkIdx : VisitCell(c)
    \/ NextPhase
    \/ UpdateEnd

SpecNoSetup == Init /\ [][NextNoSetup]_vars

\* ------------------------- specification: the source's layout, followed up
\* The world is the one Simulation::new builds (no replaced cell) and
\* Simulation::update is called until the tick is MaxRunTick.  The engine's
\* timer raises FixedTick again and again and every rayon worker finishes
\* the chunk update it has picked, so a step that is possible is taken.
RunInit == Init /\ chunks = Simulation_new(0, NoOverride)

RunNext ==
    \/ Setup
    \/ (initialized /\ UpdateBeginUpTo(MaxRunTick))
    \/ \E c \in ChunkIdx : VisitCell(c)
    \/ NextPhase
    \/ UpdateEnd

SpecRun == RunInit /\ [][RunNext]_vars /\ WF_vars(RunNext)

\* --------------------------------------- specification: one CellGrid
\* A grid is built by one of the constructors and then receives up to
\* MaxOps calls of set_color, set_cell and replace_cell.  The colours passed are the
\* colours of the materials; the simulation is left as constructed.
Palette == {color(m) : m \in Material}

GridInit ==
    /\ chunks = Simulation_new(0, NoOverride)
    /\ tick = 0
    /\ initialized = FALSE
    /\ updating = FALSE
    /\ phase = 0
    /\ pc = [c \in ChunkIdx |-> "idle"]
    /\ cursor = [c \in ChunkIdx |-> 0]
    /\ touched = [c \in ChunkIdx |-> {}]
    /\ snap = [c \in ChunkIdx |-> NoSnap]
    /\ origin = [c \in ChunkIdx |-> [i \in CellIdx |-> GlobalPos(c, PosOfIdx(i))]]
    /\ swaps = [c \in ChunkIdx |-> [i \in CellIdx |-> 0]]
    /\ initCount = [m \in Material |-> CountOf(chunks, m)]
    /\ pre = chunks
    /\ observed = NoObservation
    /\ order = [c \in ChunkIdx |-> << >>]
    /\ calls = 0
    /\ input = InputSystem_new
    /\ assetsys = AssetSystem_new
    /\ \/ api = ApiState(CellGrid_empty, 0, "empty", <<0, 0>>, <<0, 0, 0, 0>>)
       \/ \E m \in Material :
             api = ApiState(new_material(m), 0, "new_material", <<0, 0>>, color(m))

CallSetColor ==
    /\ api.ops < MaxOps
    /\ \E pos \in Local \X Local, col \in Palette :
          api' = ApiState(set_color(api.grid, pos, col), api.ops + 1,
                          "set_color", pos, col)
    /\ UNCHANGED <<chunks, tick, initialized, ctl, hist, initCount, pre, observed,
                   order, calls, input, assetsys>>

CallSetCell ==
    /\ api.ops < MaxOps
    /\ \E pos \in Local \X Local, m \in Material :
          api' = ApiState(set_cell(api.grid, pos, Cell_new(m)), api.ops + 1,
                          "set_cell", pos, color(m))
    /\ UNCHANGED <<chunks, tick, initialized, ctl, hist, initCount, pre, observed,
                   order, calls, input, assetsys>>

CallReplaceCell ==
    /\ api.ops < MaxOps
    /\ \E pos \in Local \X Local, m \in Material :
          api' = ApiState(replace_cell(api.grid, pos, Cell_new(m)), api.ops + 1,
                          "replace_cell", pos, color(m))
    /\ UNCHANGED <<chunks, tick, initialized, ctl, hist, initCount, pre, observed,
                   order, calls, input, assetsys>>

GridNext == CallSetColor \/ CallSetCell \/ CallReplaceCell

GridSpec == GridInit /\ [][GridNext]_vars

\* ------------------------------------- specification: the InputSystem
\* Actions are registered through add_action, which gives an action one
\* trigger; nothing outside input_system.rs reaches a registered action to
\* call add_trigger on it.  The actions are registered as the testbed does,
\* while no key, button or modifier is held.  The window system then
\* delivers key events, mouse button events and modifier changes that agree
\* with what is physically held (`down`); a repeated key event is a Pressed
\* event for a key that is held.
Keys == {"KeyA"}
Buttons == {"Left"}
Reasons == ({"Key"} \X Keys) \cup ({"Mouse"} \X Buttons)
ModifierStates == {{}, {"CONTROL"}}
Triggers == [reason : Reasons, modifiers : ModifierStates]

add_action(name, trigger) ==
    /\ input.down = {}
    /\ input.current_modifiers = {}
    /\ input' = IF ~input.actions[name].registered
                THEN [input EXCEPT !.actions[name] =
                        [registered |-> TRUE, triggers |-> <<trigger>>,
                         pressed |-> FALSE, just_pressed |-> FALSE]]
                ELSE input
    /\ UNCHANGED <<sim, api, assetsys>>

\* The body of the two nested for_each loops for one action: every trigger
\* of the given reason whose modifiers are the current ones assigns the
\* same two values.
ApplyEvent(action, reason, p, jp) ==
    IF \E i \in DOMAIN action.triggers :
          /\ action.triggers[i].reason = reason
          /\ input.current_modifiers = action.triggers[i].modifiers
    THEN [action EXCEPT !.pressed = p, !.just_pressed = jp]
    ELSE action

handle_keyevent(key, pressed, repeat) ==
    /\ IF pressed THEN (repeat <=> <<"Key", key>> \in input.down)
                  ELSE (~repeat /\ <<"Key", key>> \in input.down)
    /\ input' = [input EXCEPT
          !.actions = [n \in ActionNames |->
                         ApplyEvent(input.actions[n], <<"Key", key>>,
                                    pressed, pressed /\ ~repeat)],
          !.down = IF pressed THEN @ \cup {<<"Key", key>>} ELSE @ \ {<<"Key", key>>}]
    /\ UNCHANGED <<sim, api, assetsys>>

handle_mouse_input(button, pressed) ==
    /\ pressed <=> <<"Mouse", button>> \notin input.down
    /\ input' = [input EXCEPT
          !.actions = [n \in ActionNames |->
                         ApplyEvent(input.actions[n], <<"Mouse", button>>,
                                    pressed, pressed)],
          !.down = IF pressed THEN @ \cup {<<"Mouse", button>>}
                              ELSE @ \ {<<"Mouse", button>>}]
    /\ UNCHANGED <<sim, api, assetsys>>

update_modifiers(modifiers) ==
    /\ modifiers # input.current_modifiers
    /\ input' = [input EXCEPT !.current_modifiers = modifiers]
    /\ UNCHANGED <<sim, api, assetsys>>

reset_just_pressed ==
    /\ \E n \in ActionNames : input.actions[n].just_pressed
    /\ input' = [input EXCEPT
          !.actions = [n \in ActionNames |-> [input.actions[n] EXCEPT !.just_pressed = FALSE]]]
    /\ UNCHANGED <<sim, api, assetsys>>

is_action_pressed(name) ==
    IF input.actions[name].registered THEN input.actions[name].pressed ELSE FALSE

InputNext ==
    \/ \E name \in ActionNames, trigger \in Triggers : add_action(name, trigger)
    \/ \E key \in Keys, pressed \in BOOLEAN, repeat \in BOOLEAN :
          handle_keyevent(key, pressed, repeat)
    \/ \E button \in Buttons, pressed \in BOOLEAN : handle_mouse_input(button, pressed)
    \/ \E modifiers \in ModifierStates : update_modifiers(modifiers)
    \/ reset_just_pressed

InputSpec == RunInit /\ [][InputNext]_vars

\* ------------------------------------- specification: the AssetSystem
\* Up to MaxLoads calls of load for the paths of Paths (files that exist,
\* so that from_path succeeds; hot_reload only adds a file watch), by callers
\* that keep the handle they get and drop it later; drop_unused_assets runs
\* on its timer event.  A panic ends the program.
Paths == {"a.png", "b.png"}

\* A call of unwrap() on None.
Panic == -3

AssetKeys(sys) == {a[1] : a \in sys.assets}

\* AssetSystem::get: the path the asset of the handle was loaded from.
AssetSystem_get(sys, id) ==
    IF id \in AssetKeys(sys)
    THEN (CHOOSE a \in sys.assets : a[1] = id)[2]
    ELSE "panic"

\* AssetSystem::get_handle: the id of the handle returned, or Panic.
get_handle(sys, path) ==
    IF \A e \in sys.path_to_id : e[1] # path THEN Panic
    ELSE LET id == (CHOOSE e \in sys.path_to_id : e[1] = path)[2]
         IN  IF id \in AssetKeys(sys) THEN id ELSE Panic

\* AssetSystem::load: `id` is the number of assets held; the asset is
\* created when no asset has that id, otherwise get_handle(path) is returned.
load(path) ==
    /\ ~assetsys.panicked
    /\ assetsys.loads < MaxLoads
    /\ LET id == Cardinality(assetsys.assets)
           counted == [assetsys EXCEPT !.loads = @ + 1]
       IN  IF id \notin AssetKeys(assetsys)
           THEN assetsys' = [counted EXCEPT
                    !.assets = @ \cup {<<id, path>>},
                    !.path_to_id = {e \in @ : e[1] # path} \cup {<<path, id>>},
                    !.handles[id] = @ + 1,
                    !.last = [op |-> "load", path |-> path, id |-> id]]
           ELSE IF get_handle(assetsys, path) = Panic
           THEN assetsys' = [counted EXCEPT
                    !.panicked = TRUE,
                    !.last = [op |-> "load", path |-> path, id |-> None]]
           ELSE assetsys' = [counted EXCEPT
                    !.handles[get_handle(assetsys, path)] = @ + 1,
                    !.last = [op |-> "load", path |-> path,
                              id |-> get_handle(assetsys, path)]]
    /\ UNCHANGED <<sim, api, input>>

\* A caller drops a handle it holds.
DropHandle(id) ==
    /\ ~assetsys.panicked
    /\ assetsys.handles[id] > 0
    /\ assetsys' = [assetsys EXCEPT
          !.handles[id] = @ - 1,
          !.last = [op |-> "drop", path |-> "", id |-> id]]
    /\ UNCHANGED <<sim, api, input>>

\* AssetSystem::drop_unused_assets: the assets whose Arc has no owner but
\* the map are removed, with the path entries that name them.
drop_unused_assets ==
    /\ ~assetsys.panicked
    /\ LET removed_ids == {id \in AssetKeys(assetsys) : assetsys.handles[id] = 0}
       IN  /\ removed_ids # {}
           /\ assetsys' = [assetsys EXCEPT
                 !.assets = {a \in @ : a[1] \notin removed_ids},
                 !.path_to_id = {e \in @ : e[2] \notin removed_ids},
                 !.last = [op |-> "drop_unused_assets", path |-> "", id |-> None]]
    /\ UNCHANGED <<sim, api, input>>

AssetNext ==
    \/ \E path \in Paths : load(path)
    \/ \E id \in AssetIds : DropHandle(id)
    \/ drop_unused_assets

AssetSpec == RunInit /\ [][AssetNext]_vars

\* ================================================================ claims

\* Local positions and the cell / texture bytes stored at them.
LocalPos == Local \X Local
CellAt(g, pos) == g.cells[grid_idx(pos)]
BottomY == CHUNK_SIZE - 1

\* The phase in which chunk c takes part.
PhaseOf(c) == CHOOSE p \in Phases : should_update(c, p)

\* C1: Conservation.  In every reachable state the number of cells of each
\* material, summed over all chunks, equals the number after construction;
\* with the number of Empty cells fixed, so is the number of non-Empty cells.
C1_Conservation ==
    \A m \in Material : CountOf(chunks, m) = initCount[m]

\* A cell has been swapped in the running call and the world holds Sand and
\* a non-mobile material.
C1_Witness ==
    /\ updating
    /\ \E c \in ChunkIdx, i \in CellIdx :
          swaps[c][i] > 0 /\ chunks[c].grid.cells[i].material = "Sand"
    /\ \E m \in {"Red", "Green", "Blue"} : initCount[m] > 0

\* C2: Phase safety.  After setup, for every phase p no two distinct chunks
\* with should_update(p) have the other's grid in their halo: no chunk c1
\* shares a phase with the owner of a grid in c1's halo.
C2_PhaseSafety ==
    initialized =>
        \A c1 \in ChunkIdx, d \in HaloIdx :
            (chunks[c1].halo[d] # None /\ chunks[c1].halo[d] # c1) =>
                \A p \in Phases :
                    ~(should_update(c1, p) /\ should_update(chunks[c1].halo[d], p))

\* Setup has wired the halo and two distinct chunks share a phase.
C2_Witness ==
    /\ initialized
    /\ \E p \in Phases, c1 \in ChunkIdx, c2 \in ChunkIdx :
          /\ c1 # c2 /\ should_update(c1, p) /\ should_update(c2, p)
          /\ \E d \in HaloIdx : chunks[c1].halo[d] # None

\* C3: Race freedom within a phase.  The sets of grids accessed by the
\* updates of two distinct chunks of the same phase are disjoint.
C3_RaceFreedom ==
    \A c1 \in ChunkIdx, c2 \in ChunkIdx :
        c1 # c2 => touched[c1] \cap touched[c2] = {}

\* Two chunk updates are in progress at once and one of them has accessed
\* a halo grid besides its own.
C3_Witness ==
    \E c1 \in ChunkIdx, c2 \in ChunkIdx :
        /\ c1 # c2
        /\ pc[c1] = "running" /\ pc[c2] = "running"
        /\ Cardinality(touched[c1]) = 2
        /\ touched[c2] # {}

\* The state is consistent with the barrier: every chunk whose update has
\* begun in this call belongs to the current or an earlier phase, every chunk
\* of an earlier phase has finished, and so every running update belongs to
\* the current phase.
BarrierInv ==
    \A c \in ChunkIdx :
        /\ pc[c] # "idle" => (updating /\ PhaseOf(c) <= phase)
        /\ pc[c] = "running" => PhaseOf(c) = phase
        /\ (updating /\ PhaseOf(c) < phase) => pc[c] = "done"

\* C4: Phase barrier.  Inside one Simulation::update call with tick > 60 the
\* phases run in the order 0, 1, 2, 3, no chunk update of a later phase begins
\* before every update of the earlier phase has finished, and updates of
\* different phases never overlap.
C4_PhaseBarrier ==
    [][ /\ BarrierInv'
        /\ (~updating /\ updating') => (phase' = 0 /\ tick' > WARMUP_TICKS)
        /\ (updating /\ updating') => (phase' = phase \/ phase' = phase + 1)
        /\ (updating /\ ~updating') => phase = NUM_PHASES - 1 ]_vars

\* An update of the last phase is running after chunks of all earlier
\* phases have run.
C4_Witness ==
    /\ updating
    /\ phase = NUM_PHASES - 1
    /\ \E c \in ChunkIdx : pc[c] = "running"
    /\ \E c \in ChunkIdx : pc[c] = "done" /\ PhaseOf(c) = 0

\* Texture bytes, cell colour and material colour agree for every cell.
Consistent ==
    \A c \in ChunkIdx, pos \in LocalPos :
        /\ get_color(chunks[c].grid, pos) = CellAt(chunks[c].grid, pos).color
        /\ CellAt(chunks[c].grid, pos).color = color(CellAt(chunks[c].grid, pos).material)

\* C5: Texture/cell consistency.  After Simulation::new and after every
\* completed Simulation::update, the four texture bytes of every cell equal
\* the cell's colour and the colour is the fixed colour of its material.
C5_TextureConsistency == ~updating => Consistent

\* An update has completed in which a Sand cell was moved into the top row
\* of a chunk by the chunk north of it.
C5_Witness ==
    /\ ~updating
    /\ tick > WARMUP_TICKS
    /\ \E c \in ChunkIdx, x \in Local :
          /\ CellAt(chunks[c].grid, <<x, 0>>).material = "Sand"
          /\ CellAt(chunks[c].grid, <<x, 0>>).last_processed_in_tick = tick

\* C6: No double-move.  Within one Simulation::update call every Sand cell
\* has been swapped at most once and lies at most one row below the place it
\* had when the call began, in the same column.
C6_NoDoubleMove ==
    \A c \in ChunkIdx, pos \in LocalPos :
        CellAt(chunks[c].grid, pos).material = "Sand" =>
            /\ swaps[c][grid_idx(pos)] <= 1
            /\ GlobalPos(c, pos)[1] = origin[c][grid_idx(pos)][1]
            /\ GlobalPos(c, pos)[2] - origin[c][grid_idx(pos)][2] \in {0, 1}
            /\ GlobalPos(c, pos)[2] - origin[c][grid_idx(pos)][2] = swaps[c][grid_idx(pos)]

\* A Sand cell crossed into the top row of a south chunk, that chunk has
\* since completed its own update in a later phase of the same tick, and the
\* cell still rests above an Empty cell.
C6_Witness ==
    \E c \in ChunkIdx, x \in Local :
        /\ updating
        /\ pc[c] = "done"
        /\ CellAt(chunks[c].grid, <<x, 0>>).material = "Sand"
        /\ swaps[c][grid_idx(<<x, 0>>)] = 1
        /\ CellAt(chunks[c].grid, <<x, 1>>).material = "Empty"

\* A chunk with position pos exists in the chunk array.
ChunkAt(pos) == \E k \in ChunkIdx : chunks[k].position = pos

NeighPos(c, d) ==
    << chunks[c].position[1] + HALO_DIRECTIONS[d][1],
       chunks[c].position[2] + HALO_DIRECTIONS[d][2] >>

\* C7: Halo wiring.  After setup halo[d] of chunk c is Some iff a chunk at
\* position + HALO_DIRECTIONS[d] exists, and then it refers to the grid of
\* that chunk; at world edges it is None.
C7_HaloWiring ==
    initialized =>
        \A c \in ChunkIdx, d \in HaloIdx :
            /\ chunks[c].halo[d] # None <=> ChunkAt(NeighPos(c, d))
            /\ chunks[c].halo[d] # None =>
                  /\ chunks[c].halo[d] \in ChunkIdx
                  /\ chunks[chunks[c].halo[d]].position = NeighPos(c, d)

\* Setup has run; some link is Some and some link is None although the
\* index function lands on a chunk of the opposite edge.
C7_Witness ==
    /\ initialized
    /\ \E c \in ChunkIdx, d \in HaloIdx : chunks[c].halo[d] # None
    /\ \E c \in ChunkIdx, d \in HaloIdx :
          /\ chunks[c].halo[d] = None
          /\ ~ChunkAt(NeighPos(c, d))
          /\ get_idx_in_chunks(NeighPos(c, d)) \in ChunkIdx
          /\ get_idx_in_chunks(NeighPos(c, d)) # c

\* The precondition of the cross-chunk fall at column x for the update of
\* chunk c that has just finished: when the update began the bottom-row cell
\* was an unstamped Sand and the south neighbour's top-row cell was Empty.
FallPre(c, x) ==
    /\ snap[c].taken
    /\ pc[c] = "done"
    /\ chunks[c].halo[South] # None
    /\ CellAt(snap[c].own, <<x, BottomY>>).material = "Sand"
    /\ CellAt(snap[c].own, <<x, BottomY>>).last_processed_in_tick # tick
    /\ CellAt(snap[c].south, <<x, 0>>).material = "Empty"

\* The south neighbour's top-row cell is Sand, with Sand texture bytes.
FallArrived(c, x) ==
    /\ CellAt(chunks[chunks[c].halo[South]].grid, <<x, 0>>).material = "Sand"
    /\ get_color(chunks[chunks[c].halo[South]].grid, <<x, 0>>) = color("Sand")

\* The bottom-row cell of chunk c holds material m, with matching texture bytes.
BottomIs(c, x, m) ==
    /\ CellAt(chunks[c].grid, <<x, BottomY>>).material = m
    /\ get_color(chunks[c].grid, <<x, BottomY>>) = color(m)

\* The sweep is bottom-up and the cell above the bottom row was an
\* unstamped Sand when the update began, so it falls into the vacated cell.
Refilled(c, x) ==
    /\ tick % 2 = 0
    /\ CellAt(snap[c].own, <<x, BottomY - 1>>).material = "Sand"
    /\ CellAt(snap[c].own, <<x, BottomY - 1>>).last_processed_in_tick # tick

C9_OpenBoundary ==
    [][ /\ \A c \in ChunkIdx, x \in Local :
              (/\ chunks[c].halo[South] = None
               /\ CellAt(chunks[c].grid, <<x, BottomY>>).material = "Sand") =>
                  /\ CellAt(chunks'[c].grid, <<x, BottomY>>)
                        = CellAt(chunks[c].grid, <<x, BottomY>>)
                  /\ get_color(chunks'[c].grid, <<x, BottomY>>)
                        = get_color(chunks[c].grid, <<x, BottomY>>)
        /\ CountOf(chunks', "Sand") = CountOf(chunks, "Sand") ]_vars

\* After setup, the update of a chunk on the world floor has visited an
\* unstamped Sand cell of its bottom row, above which the column is Empty.
C9_Witness ==
    \E c \in ChunkIdx, x \in Local :
        /\ initialized
        /\ pc[c] = "done"
        /\ chunks[c].halo[South] = None
        /\ CellAt(chunks[c].grid, <<x, BottomY>>).material = "Sand"
        /\ CellAt(chunks[c].grid, <<x, BottomY>>).last_processed_in_tick # tick
        /\ CellAt(chunks[c].grid, <<x, 0>>).material = "Empty"

\* No Sand cell has an Empty cell directly below it, inside its chunk or,
\* for the bottom row, in the south halo grid.
Settled(ch) ==
    \A c \in ChunkIdx, pos \in LocalPos :
        (/\ ch[c].grid.cells[grid_idx(pos)].material = "Sand"
         /\ BelowGrid(ch, c, pos) \in ChunkIdx) =>
            ch[BelowGrid(ch, c, pos)].grid.cells[grid_idx(WrapPos(BelowPos(pos)))].material
                # "Empty"

\* Materials, colours and texture bytes of every grid.
Appearance(ch) ==
    [c \in ChunkIdx |->
        [materials |-> [i \in CellIdx |-> ch[c].grid.cells[i].material],
         colors |-> [i \in CellIdx |-> ch[c].grid.cells[i].color],
         texture_data |-> ch[c].grid.texture_data]]

\* C10: Settled state is a fixed point.  Once, after setup, no Sand cell has
\* an Empty cell directly below it, no step of any further update changes a
\* material, colour or texture byte, and the state stays settled.
C10_SettledFixedPoint ==
    [][ (initialized /\ Settled(chunks)) =>
            (Appearance(chunks') = Appearance(chunks) /\ Settled(chunks')) ]_vars

\* A settled world that holds Sand resting on a non-mobile cell and on the
\* floor, in which a chunk update has run to its end.
C10_Witness ==
    /\ initialized
    /\ Settled(chunks)
    /\ updating
    /\ \E c \in ChunkIdx : pc[c] = "done" /\
          \E x \in Local :
             /\ CellAt(chunks[c].grid, <<x, 0>>).material = "Sand"
             /\ CellAt(chunks[c].grid, <<x, 1>>).material \in {"Red", "Green", "Blue"}

\* The grids of all chunks.
Grids(ch) == [c \in ChunkIdx |-> ch[c].grid]

\* C11: Warm-up.  A step that leaves the tick at 60 or less changes no grid
\* (cells, stamps, texture bytes) and starts no Chunk::update; a step that
\* changes a grid belongs to a call that raised the tick to 61 or more.
C11_WarmUp ==
    [][ /\ tick' <= WARMUP_TICKS =>
              /\ Grids(chunks') = Grids(chunks)
              /\ ~updating'
              /\ \A c \in ChunkIdx : pc'[c] = "idle" /\ cursor'[c] = 0
        /\ Grids(chunks') # Grids(chunks) => (updating /\ tick > WARMUP_TICKS) ]_vars

\* The call that raised the tick to 61 has moved a cell.
C11_Witness ==
    /\ tick = WARMUP_TICKS + 1
    /\ updating
    /\ \E c \in ChunkIdx, i \in CellIdx : swaps[c][i] > 0
    /\ Grids(chunks) # Grids(pre)

\* C12: Determinism under parallel execution.  Whenever all chunk updates of
\* a phase have finished, under whatever interleaving of their cell visits,
\* the chunks are what a single worker running the phases so far, chunk by
\* chunk in array order, makes of the chunks the call began with.
C12_Determinism ==
    (updating /\ PhaseComplete) => chunks = PhasesFrom(pre, 0, phase, tick)

\* A phase is complete in which two chunks each moved a cell into the grid
\* south of them.
C12_Witness ==
    /\ updating
    /\ PhaseComplete
    /\ \E c1 \in ChunkIdx, c2 \in ChunkIdx :
          /\ c1 # c2
          /\ should_update(c1, phase) /\ should_update(c2, phase)
          /\ Cardinality(touched[c1]) = 2 /\ Cardinality(touched[c2]) = 2
          /\ chunks[chunks[c1].halo[South]].grid # pre[chunks[c1].halo[South]].grid
          /\ chunks[chunks[c2].halo[South]].grid # pre[chunks[c2].halo[South]].grid

\* Chunk::update of chunk c is about to visit a cell.
VisitEnabled(c) ==
    /\ updating
    /\ (pc[c] = "idle" /\ should_update(c, phase)) \/ pc[c] = "running"
    /\ cursor[c] < NUM_CELLS_IN_CHUNK

InRange(pos) ==
    /\ 0 <= pos[1] /\ pos[1] < CHUNK_SIZE
    /\ 0 <= pos[2] /\ pos[2] < CHUNK_SIZE

\* The positions the coming visit of chunk c passes to get_cell, get_cell_mut
\* and set_color are in range, on the own grid and on the grid below.
VisitInRange(c) ==
    LET pos == SweepPos(cursor[c], tick)
    IN  /\ InRange(pos)
        /\ grid_idx(pos) \in CellIdx
        /\ (Processed(chunks, c, pos, tick) /\ BelowGrid(chunks, c, pos) \in ChunkIdx) =>
              /\ InRange(WrapPos(BelowPos(pos)))
              /\ grid_idx(WrapPos(BelowPos(pos))) \in CellIdx

\* C13: In-range access.  For every chunk and every visit of Chunk::update,
\* each position used to index the own grid or a halo grid lies in
\* [0, CHUNK_SIZE) on both axes.
C13_InRangeAccess ==
    \A c \in ChunkIdx : VisitEnabled(c) => VisitInRange(c)

\* A chunk whose north and west links are None had an unstamped Sand cell
\* at local (0,0) when its update began, and the update has run to its end.
C13_Witness ==
    \E c \in ChunkIdx :
        /\ initialized
        /\ pc[c] = "done"
        /\ snap[c].taken
        /\ chunks[c].halo[DirIndex(<<0, -1>>)] = None
        /\ chunks[c].halo[DirIndex(<<-1, 0>>)] = None
        /\ CellAt(snap[c].own, <<0, 0>>).material = "Sand"
        /\ CellAt(snap[c].own, <<0, 0>>).last_processed_in_tick # tick
        /\ \/ CellAt(chunks[c].grid, <<0, 0>>).material = "Sand"
           \/ CellAt(chunks[c].grid, <<0, 1>>).material = "Sand"

\* C14: Snapshot reads.  What a reader holds from get_chunks is the state a
\* completed Simulation::update call left behind (or the constructed state):
\* no update is in progress, and the grids are those of the whole call.
C14_SnapshotReads ==
    observed.taken =>
        /\ ~updating
        /\ \A c \in ChunkIdx : pc[c] = "idle"
        /\ observed.grids = Grids(Simulation_update(pre, tick))

\* A reader holds the chunks after a call that moved cells.
C14_Witness ==
    /\ observed.taken
    /\ tick > WARMUP_TICKS
    /\ observed.grids # Grids(pre)

\* Number of cells of a material in one grid.
CountIn(g, material) == Cardinality({i \in CellIdx : g.cells[i].material = material})

\* The coming visit of chunk c does not panic: its positions are in range
\* and get_grid_from_dir does not reach unimplemented!().
VisitNoPanic(c) ==
    /\ VisitInRange(c)
    /\ Processed(chunks, c, SweepPos(cursor[c], tick), tick) =>
          BelowGrid(chunks, c, SweepPos(cursor[c], tick)) # Unimplemented

\* When the update call has returned, every Sand cell that had an Empty cell
\* below it inside its chunk when the call began has fallen onto that cell.
FallsInside ==
    (~updating /\ tick > WARMUP_TICKS) =>
        \A c \in ChunkIdx, x \in Local, y \in 0 .. BottomY - 1 :
            (/\ CellAt(pre[c].grid, <<x, y>>).material = "Sand"
             /\ CellAt(pre[c].grid, <<x, y + 1>>).material = "Empty") =>
                /\ CellAt(chunks[c].grid, <<x, y + 1>>).material = "Sand"
                /\ CellAt(chunks[c].grid, <<x, y + 1>>).last_processed_in_tick = tick

\* C15: Missing setup.  When update is called without setup, every halo link
\* is None, no visit panics, every cell stays in its chunk, Sand with an
\* Empty cell below it inside the chunk falls, and Sand on the bottom row of
\* a chunk stays where it is.
C15_MissingSetup ==
    /\ \A c \in ChunkIdx, d \in HaloIdx : chunks[c].halo[d] = None
    /\ \A c \in ChunkIdx : VisitEnabled(c) => VisitNoPanic(c)
    /\ \A c \in ChunkIdx, i \in CellIdx :
          \E pos \in LocalPos : origin[c][i] = GlobalPos(c, pos)
    /\ \A c \in ChunkIdx, m \in Material :
          CountIn(chunks[c].grid, m) = CountIn(pre[c].grid, m)
    /\ FallsInside
    /\ \A c \in ChunkIdx, x \in Local :
          CellAt(pre[c].grid, <<x, BottomY>>).material = "Sand" =>
              /\ CellAt(chunks[c].grid, <<x, BottomY>>) = CellAt(pre[c].grid, <<x, BottomY>>)
              /\ get_color(chunks[c].grid, <<x, BottomY>>) = color("Sand")

\* Without setup an update call has returned in which a Sand cell fell
\* inside a chunk and a Sand cell stayed on the bottom row of a chunk that
\* has a chunk south of it with an Empty cell right below.
C15_Witness ==
    /\ ~initialized
    /\ ~updating
    /\ tick > WARMUP_TICKS
    /\ \E c \in ChunkIdx, x \in Local :
          /\ CellAt(pre[c].grid, <<x, 0>>).material = "Sand"
          /\ CellAt(pre[c].grid, <<x, 1>>).material = "Empty"
          /\ CellAt(chunks[c].grid, <<x, 1>>).material = "Sand"
    /\ \E c \in ChunkIdx, x \in Local :
          /\ ChunkAt(NeighPos(c, South))
          /\ CellAt(chunks[c].grid, <<x, BottomY>>).material = "Sand"
          /\ CellAt(chunks[get_idx_in_chunks(NeighPos(c, South))].grid, <<x, 0>>).material
                = "Empty"

\* C16: The empty-grid constructor.  A grid fresh from CellGrid::empty (or
\* CellGrid::new) has material Empty in every cell and the colour of Empty
\* in every 4-byte group of its texture buffer.
C16_EmptyGrid ==
    api.last.op = "empty" =>
        \A pos \in LocalPos :
            /\ CellAt(api.grid, pos).material = "Empty"
            /\ get_color(api.grid, pos) = color("Empty")

\* C17: set_color writes both representations.  Right after
\* set_color(pos, color) the cell at pos has that colour and so have the
\* four texture bytes of pos.
C17_SetColorSync ==
    api.last.op = "set_color" =>
        /\ CellAt(api.grid, api.last.pos).color = api.last.color
        /\ get_color(api.grid, api.last.pos) = api.last.color

\* The grid has a dirty flag and it is set.
HasDirtySet(g) == "dirty" \in DOMAIN g /\ g.dirty

\* C18: Dirty tracking.  Every grid that an update call has mutated, by the
\* update of its own chunk or through a halo link, has its dirty flag set
\* (no consumer clears it here).
C18_DirtyTracking ==
    \A c \in ChunkIdx :
        chunks[c].grid # pre[c].grid => HasDirtySet(chunks[c].grid)

\* Chunk c takes the step that visits its next cell.
Visits(c) == cursor'[c] = cursor[c] + 1

\* The world is what it was except for the cell and the texture bytes at
\* pos of chunk c and at bpos of chunk g.
OnlyChanged(c, pos, g, bpos) ==
    \A k \in ChunkIdx, q \in LocalPos :
        (<<k, q>> # <<c, pos>> /\ <<k, q>> # <<g, bpos>>) =>
            /\ CellAt(chunks'[k].grid, q) = CellAt(chunks[k].grid, q)
            /\ get_color(chunks'[k].grid, q) = get_color(chunks[k].grid, q)

\* The move rule for the visit of pos by chunk c.
MoveRule(c, pos) ==
    LET cell == CellAt(chunks[c].grid, pos)
        g == BelowGrid(chunks, c, pos)
        bpos == WrapPos(BelowPos(pos))
    IN  (/\ cell.material = "Sand"
         /\ cell.last_processed_in_tick # tick
         /\ g \in ChunkIdx) =>
            IF CellAt(chunks[g].grid, bpos).material = "Empty"
            THEN /\ CellAt(chunks'[g].grid, bpos)
                       = [cell EXCEPT !.last_processed_in_tick = tick]
                 /\ CellAt(chunks'[c].grid, pos) = CellAt(chunks[g].grid, bpos)
                 /\ get_color(chunks'[g].grid, bpos) = color("Sand")
                 /\ get_color(chunks'[c].grid, pos) = color("Empty")
                 /\ OnlyChanged(c, pos, g, bpos)
            ELSE chunks' = chunks

\* C19: Move rule.  When a visit finds an unstamped Sand cell whose target
\* cell below is Empty, the two cells are exchanged whole: the target holds
\* the Sand cell stamped with the tick, the source holds the former Empty
\* cell with its stamp, the texture bytes follow and nothing else changes;
\* when the target is not Empty, nothing changes.
C19_MoveRule ==
    [][ \A c \in ChunkIdx :
            Visits(c) => MoveRule(c, SweepPos(cursor[c], tick)) ]_vars

\* A finished chunk update met a Sand cell on a cell that was not Empty and
\* left it unstamped, and moved the Sand cell below it into the grid south
\* of the chunk, where it lies stamped with the tick.
C19_Witness ==
    \E c \in ChunkIdx, x \in Local :
        /\ pc[c] = "done"
        /\ snap[c].taken
        /\ chunks[c].halo[South] # None
        /\ CellAt(snap[c].own, <<x, BottomY - 1>>).material = "Sand"
        /\ CellAt(snap[c].own, <<x, BottomY>>).material = "Sand"
        /\ CellAt(chunks[c].grid, <<x, BottomY - 1>>).material = "Sand"
        /\ CellAt(chunks[c].grid, <<x, BottomY - 1>>).last_processed_in_tick # tick
        /\ CellAt(chunks[c].grid, <<x, BottomY>>).material = "Empty"
        /\ CellAt(chunks[chunks[c].halo[South]].grid, <<x, 0>>).material = "Sand"
        /\ CellAt(chunks[chunks[c].halo[South]].grid, <<x, 0>>).last_processed_in_tick = tick

NonMobile == {"Red", "Green", "Blue"}

\* C20: Non-mobile materials are inert.  No step changes a Red, Green or
\* Blue cell or its texture bytes (so Sand above it never swaps with it),
\* and the visit of an Empty, Red, Green or Blue cell changes nothing.
C20_NonMobileInert ==
    [][ /\ \A c \in ChunkIdx, pos \in LocalPos :
              CellAt(chunks[c].grid, pos).material \in NonMobile =>
                  /\ CellAt(chunks'[c].grid, pos) = CellAt(chunks[c].grid, pos)
                  /\ get_color(chunks'[c].grid, pos) = get_color(chunks[c].grid, pos)
        /\ \A c \in ChunkIdx :
              (/\ Visits(c)
               /\ CellAt(chunks[c].grid, SweepPos(cursor[c], tick)).material # "Sand") =>
                  chunks' = chunks ]_vars

\* A finished chunk update has visited an unstamped Sand cell lying on a
\* Red, Green or Blue cell, which itself lies above an Empty cell of the
\* grid south of the chunk.
C20_Witness ==
    \E c \in ChunkIdx, x \in Local :
        /\ pc[c] = "done"
        /\ chunks[c].halo[South] # None
        /\ CellAt(chunks[c].grid, <<x, BottomY - 1>>).material = "Sand"
        /\ CellAt(chunks[c].grid, <<x, BottomY - 1>>).last_processed_in_tick # tick
        /\ CellAt(chunks[c].grid, <<x, BottomY>>).material \in NonMobile
        /\ CellAt(chunks[chunks[c].halo[South]].grid, <<x, 0>>).material = "Empty"

\* ---- C21
\* The phases of the chunk at array index c.
PhasesOf(c) == {p \in Phases : should_update(c, p)}

\* C21: for every chunk position of the world, negative coordinates
\* included, exactly one phase p of 0..3 satisfies should_update(p), two
\* phases never hold the same chunk, and in a call that is past the warm-up
\* Chunk::update runs exactly once for every chunk: a chunk that has finished
\* does not start again while the call lasts, it runs only in its own phase,
\* and every chunk has finished its whole sweep when the call returns.
C21_PhasePartition ==
    [][ /\ \A c \in ChunkIdx : Cardinality(PhasesOf(c)) = 1
        /\ \A c \in ChunkIdx :
              /\ (pc[c] = "done" /\ updating') => pc'[c] = "done"
              /\ pc'[c] # pc[c] /\ updating' => phase \in PhasesOf(c)
              /\ (updating /\ ~updating') =>
                    (pc[c] = "done" /\ cursor[c] = NUM_CELLS_IN_CHUNK) ]_vars

\* A call past the warm-up is in its last phase, every chunk has run, and
\* the world holds chunks with negative coordinates.
C21_Witness ==
    /\ updating
    /\ phase = NUM_PHASES - 1
    /\ \A c \in ChunkIdx : pc[c] = "done"
    /\ \E c \in ChunkIdx : chunks[c].position[1] < 0 /\ chunks[c].position[2] < 0

\* ---- C22
\* Position a comes before position b in the sweep of tick t: the rows from
\* CHUNK_SIZE-1 down to 0 when t is even and from 0 up otherwise; inside a
\* row the columns from CHUNK_SIZE-1 down when t is divisible by 4 and from
\* 0 up otherwise.
SweepBefore(a, b, t) ==
    \/ a[2] # b[2] /\ (IF t % 2 = 0 THEN a[2] > b[2] ELSE a[2] < b[2])
    \/ a[2] = b[2] /\ (IF t % 4 = 0 THEN a[1] > b[1] ELSE a[1] < b[1])

\* C22: the local coordinates Chunk::update(tick) has visited are pairwise
\* different and in sweep order (rows reversed exactly when tick is even,
\* columns reversed exactly when tick is divisible by 4, ascending
\* otherwise), the sweep begins with the first coordinate of that order,
\* and when the call has finished every local coordinate was visited
\* exactly once.
C22_SweepOrder ==
    \A c \in ChunkIdx :
        /\ \A i, j \in DOMAIN order[c] :
               i < j => /\ order[c][i] \in LocalPos
                        /\ order[c][j] \in LocalPos
                        /\ SweepBefore(order[c][i], order[c][j], tick)
        /\ Len(order[c]) > 0 =>
               order[c][1] = << IF tick % 4 = 0 THEN CHUNK_SIZE - 1 ELSE 0,
                                IF tick % 2 = 0 THEN CHUNK_SIZE - 1 ELSE 0 >>
        /\ pc[c] = "done" =>
               /\ Len(order[c]) = NUM_CELLS_IN_CHUNK
               /\ {order[c][i] : i \in DOMAIN order[c]} = LocalPos

\* A chunk has finished its sweep in a tick that is divisible by 4, another
\* one in a tick that is even only or odd is covered by the ticks before.
C22_Witness ==
    /\ tick % 4 = 0
    /\ \E c \in ChunkIdx :
          /\ pc[c] = "done"
          /\ order[c][1] = <<CHUNK_SIZE - 1, CHUNK_SIZE - 1>>
          /\ order[c][NUM_CELLS_IN_CHUNK] = <<0, 0>>

\* ---- C26
\* Global coordinates of local position pos of chunk c of the chunks ch.
GlobalIn(ch, c, pos) ==
    << ch[c].position[1] * CHUNK_SIZE + pos[1],
       ch[c].position[2] * CHUNK_SIZE + pos[2] >>

\* No Sand cell of ch has an Empty cell directly below it inside the world
\* (the world's geometry, not the halo links, says what is below).
SettledWorld(ch) ==
    \A c \in ChunkIdx, pos \in LocalPos :
        CellAt(ch[c].grid, pos).material = "Sand" =>
            \A k \in ChunkIdx, q \in LocalPos :
                GlobalIn(ch, k, q) = << GlobalIn(ch, c, pos)[1], GlobalIn(ch, c, pos)[2] + 1 >>
                    => CellAt(ch[k].grid, q).material # "Empty"

\* C26: Settling.  From the world built by Simulation::new and wired by
\* setup, repeated Simulation::update calls eventually reach a state in
\* which no Sand cell has an Empty cell directly below it inside the world,
\* the world stays so, and from then on no step changes a grid.
C26_Settling ==
    /\ <>[](initialized /\ SettledWorld(chunks))
    /\ [][ (initialized /\ SettledWorld(chunks)) =>
              Grids(chunks') = Grids(chunks) ]_vars

\* The Sand of chunk row 0 has come to rest on the world floor, and a chunk
\* update has run over the settled world to its end.
C26_Witness ==
    /\ initialized
    /\ SettledWorld(chunks)
    /\ updating
    /\ \E c \in ChunkIdx :
          /\ pc[c] = "done"
          /\ chunks[c].position[2] = FloorRow
          /\ \A pos \in LocalPos : CellAt(chunks[c].grid, pos).material = "Sand"
          /\ CellAt(pre[c].grid, <<0, BottomY>>).material = "Sand"

\* ---- C23
\* The stamps the cells of ch carry.
Stamps(ch) ==
    {ch[c].grid.cells[i].last_processed_in_tick : c \in ChunkIdx, i \in CellIdx}

\* C23: Tick counter.  Simulation.tick starts at 0; a step that begins a
\* Simulation::update call, during warm-up or after it, raises the tick by
\* exactly 1, and no other step changes it, so the tick is the number of
\* calls begun and grows strictly from call to call; inside one call the
\* tick is the same for all phases and chunks, and the only stamp a step
\* of a chunk update brings into the grids is that tick.
C23_TickCounter ==
    /\ tick = 0
    /\ [][ /\ calls' = calls + 1 => tick' = tick + 1
           /\ calls' = calls => tick' = tick
           /\ tick' = calls'
           /\ updating => tick' = tick
           /\ chunks' # chunks =>
                 /\ Stamps(chunks') \subseteq Stamps(chunks) \cup {tick}
                 /\ Stamps(chunks') # Stamps(chunks) => updating ]_vars

\* The warm-up calls and one more have been made, and a chunk update of the
\* last call has stamped a cell with the tick of the call.
C23_Witness ==
    /\ calls = WARMUP_TICKS + 1
    /\ tick = WARMUP_TICKS + 1
    /\ updating
    /\ tick \in Stamps(chunks)

\* ---- C24
\* The chunk positions the world is to cover.
WorldPositions ==
    (-(NUM_CHUNKS_X \div 2) .. (NUM_CHUNKS_X \div 2) - 1)
        \X (-(NUM_CHUNKS_Y \div 2) .. (NUM_CHUNKS_Y \div 2) - 1)

Positions(ch) == [i \in ChunkIdx |-> ch[i].position]

\* The positions are pairwise distinct, cover exactly the world, and the
\* chunk at array index i is the one get_idx_in_chunks finds, row by row.
LayoutIndexed(ch) ==
    /\ \A i, j \in ChunkIdx : i # j => ch[i].position # ch[j].position
    /\ {ch[i].position : i \in ChunkIdx} = WorldPositions
    /\ \A i \in ChunkIdx :
          /\ get_idx_in_chunks(ch[i].position) = i
          /\ ch[i].position = << (i % NUM_CHUNKS_X) - (NUM_CHUNKS_X \div 2),
                                 (i \div NUM_CHUNKS_X) - (NUM_CHUNKS_Y \div 2) >>

\* C24: Layout indexing.  The chunks built by Simulation::new have pairwise
\* distinct positions covering exactly [-NUM_CHUNKS_X/2, NUM_CHUNKS_X/2) x
\* [-NUM_CHUNKS_Y/2, NUM_CHUNKS_Y/2), get_idx_in_chunks(chunks[i].position)
\* is i for every array index i (row-major), and no step of setup or update
\* changes a position, so this holds in every reachable state.
C24_LayoutIndexing ==
    [][ /\ LayoutIndexed(chunks)
        /\ Positions(chunks') = Positions(chunks)
        /\ LayoutIndexed(chunks') ]_vars

\* Setup has run and an update call past the warm-up that moved cells has
\* returned; the layout is still indexed.
C24_Witness ==
    /\ initialized
    /\ ~updating
    /\ tick > WARMUP_TICKS
    /\ Grids(chunks) # Grids(pre)
    /\ LayoutIndexed(chunks)

\* ---- C25
\* The cell the last set_cell or replace_cell call was given: the calls pass
\* Cell::new of a material, and last.color is that material's colour.
LastCell == Cell_new(CHOOSE m \in Material : color(m) = api.last.color)

\* C25: Grid mutators keep cells and texture in sync.  After
\* CellGrid::set_cell(pos, c) or CellGrid::replace_cell(pos, c), the cell
\* stored at pos equals c and the texture bytes at grid_idx(pos) equal
\* c.color.
C25_MutatorSync ==
    api.last.op \in {"set_cell", "replace_cell"} =>
        /\ CellAt(api.grid, api.last.pos) = LastCell
        /\ get_color(api.grid, api.last.pos) = LastCell.color

\* replace_cell was called with a cell of another material than the one
\* stored at the position.
C25_Witness ==
    /\ api.last.op = "replace_cell"
    /\ get_color(api.grid, api.last.pos) = api.last.color
    /\ CellAt(api.grid, api.last.pos).material # LastCell.material

\* ---- C27
\* The cells (chunk, local position) of the world.
WorldCells == ChunkIdx \X LocalPos

IsSand(ch, cp) == CellAt(ch[cp[1]].grid, cp[2]).material = "Sand"

\* Number of Sand cells of ch in the global column gx.
SandInColumn(ch, gx) ==
    Cardinality({cp \in WorldCells : GlobalIn(ch, cp[1], cp[2])[1] = gx /\ IsSand(ch, cp)})

\* Cell cq is directly below cell cp in the world.
DirectlyBelow(cp, cq) ==
    GlobalIn(chunks, cq[1], cq[2])
        = << GlobalIn(chunks, cp[1], cp[2])[1], GlobalIn(chunks, cp[1], cp[2])[2] + 1 >>

\* The cells of the chunks whose grid or grain history a step writes.
WrittenCells ==
    {c \in ChunkIdx : chunks'[c].grid # chunks[c].grid \/ origin'[c] # origin[c]}
        \X LocalPos

\* C27: Sand moves only straight down.  In every step a cell that gives up
\* its Sand has directly below it a cell that receives Sand, a cell that
\* receives Sand has directly above it a cell that gives it up, and the
\* number of Sand cells of the global columns involved stays what it was;
\* a Sand grain is in the global column in which it was when the call
\* began, and not higher than it was.
C27_StraightDown ==
    [][ LET gone == {cp \in WrittenCells : IsSand(chunks, cp) /\ ~IsSand(chunks', cp)}
            come == {cp \in WrittenCells : ~IsSand(chunks, cp) /\ IsSand(chunks', cp)}
        IN  /\ \A cp \in gone : \E cq \in come : DirectlyBelow(cp, cq)
            /\ \A cq \in come : \E cp \in gone : DirectlyBelow(cp, cq)
            /\ \A cp \in gone \cup come :
                  SandInColumn(chunks', GlobalIn(chunks, cp[1], cp[2])[1])
                      = SandInColumn(chunks, GlobalIn(chunks, cp[1], cp[2])[1])
            /\ \A cp \in WrittenCells :
                  IsSand(chunks', cp) =>
                      /\ origin'[cp[1]][grid_idx(cp[2])][1] = GlobalIn(chunks', cp[1], cp[2])[1]
                      /\ origin'[cp[1]][grid_idx(cp[2])][2] <= GlobalIn(chunks', cp[1], cp[2])[2] ]_vars

\* In one call a Sand grain has fallen from one chunk into the chunk south
\* of it and is still in its global column.
C27_Witness ==
    \E c \in ChunkIdx, pos \in LocalPos :
        /\ CellAt(chunks[c].grid, pos).material = "Sand"
        /\ origin[c][grid_idx(pos)][1] = GlobalIn(chunks, c, pos)[1]
        /\ origin[c][grid_idx(pos)][2] < chunks[c].position[2] * CHUNK_SIZE

\* ---- C28
\* The direction hints get_grid_from_dir has a branch for.
KnownHints == {<<0, 0>>} \cup {HALO_DIRECTIONS[d] : d \in HaloIdx}

\* C28: whenever Chunk::update visits a cell that it looks at further, the
\* direction hint it computes is (0,0) or one of the eight HALO_DIRECTIONS,
\* and get_grid_from_dir does not fall through to unimplemented!().
C28_DirHint ==
    [][ \A c \in ChunkIdx :
           (Visits(c) /\ Processed(chunks, c, SweepPos(cursor[c], tick), tick)) =>
               /\ DirHint(BelowPos(SweepPos(cursor[c], tick))) \in KnownHints
               /\ get_grid_from_dir(chunks, c, DirHint(BelowPos(SweepPos(cursor[c], tick))))
                      # Unimplemented ]_vars

\* A Sand cell of the bottom row has been visited, with the hint (0,1), and
\* has moved into the grid the south link refers to.
C28_Witness ==
    \E c \in ChunkIdx, x \in Local :
        /\ pc[c] # "idle"
        /\ DirHint(BelowPos(<<x, BottomY>>)) = <<0, 1>>
        /\ chunks[c].halo[South] \in ChunkIdx
        /\ CellAt(snap[c].own, <<x, BottomY>>).material = "Sand"
        /\ CellAt(chunks[c].grid, <<x, BottomY>>).material = "Empty"
        /\ CellAt(chunks[chunks[c].halo[South]].grid, <<x, 0>>).last_processed_in_tick = tick

\* ---- C29
\* The key or button of the trigger is physically held and the modifiers
\* held are the trigger's.
TriggerHeld(trigger) ==
    /\ trigger.reason \in input.down
    /\ input.current_modifiers = trigger.modifiers

\* C29: is_action_pressed(name) returns true whenever at least one of the
\* triggers of the action is currently held down, after any sequence of key
\* and mouse press and release events.
C29_ActionPressed ==
    \A name \in ActionNames :
        (\E i \in DOMAIN input.actions[name].triggers :
             TriggerHeld(input.actions[name].triggers[i]))
            => is_action_pressed(name)

\* ---- C30
\* C30: AssetSystem::load does not panic, the handle it returns names an
\* asset of the system, no two assets share an id, and get(handle) is the
\* asset loaded from the path given.
C30_LoadContract ==
    /\ ~assetsys.panicked
    /\ assetsys.last.op = "load" =>
          /\ assetsys.last.id \in AssetKeys(assetsys)
          /\ \A a, b \in assetsys.assets : a[1] = b[1] => a = b
          /\ AssetSystem_get(assetsys, assetsys.last.id) = assetsys.last.path

====
